---- MODULE Spec2Model ----
(***************************************************************************)
(* Model of src/claims_checker.py: the Streamlit script that pairs         *)
(* uploaded PDF and Excel/CSV files by normalised name, sends each pair to *)
(* the comparator, and aggregates the verdicts into counts and a report.   *)
(*                                                                         *)
(* Text is modelled at character level: a Python str is a sequence of      *)
(* one-character strings, so that Path.stem, str.replace, str.strip,       *)
(* str.lower, the `in` substring test and str.join are computed as the     *)
(* interpreter computes them.                                              *)
(***************************************************************************)
EXTENDS Integers, Sequences, FiniteSets, TLC

VARIABLES
    pc,               \* position of the script run
    secrets,          \* st.secrets["ANTHROPIC_API_KEY"], or Absent
    text_input,       \* what the operator typed in the key field
    api_key,
    pdf_files,        \* uploaded report files (by name, upload order)
    excel_files,      \* uploaded tabular files (by name, upload order)
    pdf_dict,         \* insertion-ordered dict: sequence of <<key, file>>
    excel_dict,
    matched_pairs,
    unmatched_pdfs,
    unmatched_excels,
    shown,            \* messages surfaced to the operator, in order
    results,
    idx,              \* number of pairs the loop has completed
    total_pairs,
    calls,            \* pair indices client.messages.create was invoked for
    outcomes,         \* what the environment did for each processed pair
    discrepancy_count,
    match_count,
    results_text,
    stem, token, ext, \* inputs of the get_base_name runs
    key, bare_key, key2

pvars == <<pc, secrets, text_input, api_key, pdf_files, excel_files, pdf_dict,
           excel_dict, matched_pairs, unmatched_pdfs, unmatched_excels, shown,
           results, idx, total_pairs, calls, outcomes, discrepancy_count,
           match_count, results_text>>

nvars == <<stem, token, ext, key, bare_key, key2>>

vars == <<pvars, nvars>>

\* Bounds of the model.
MaxFiles == 2
MaxPieces == 3

\* "=" * 80
SepWidth == 80

--------------------------------------------------------------------------
(* Python str operations on character sequences *)

UpperLetters ==
    <<"A","B","C","D","E","F","G","H","I","J","K","L","M",
      "N","O","P","Q","R","S","T","U","V","W","X","Y","Z">>

LowerLetters ==
    <<"a","b","c","d","e","f","g","h","i","j","k","l","m",
      "n","o","p","q","r","s","t","u","v","w","x","y","z">>

LowerChar(c) ==
    IF \E i \in 1..26 : UpperLetters[i] = c
    THEN LowerLetters[CHOOSE i \in 1..26 : UpperLetters[i] = c]
    ELSE c

\* str.lower()
Lower(s) == [i \in 1..Len(s) |-> LowerChar(s[i])]

IsSpace(c) == c \in {" ", "\n", "\t"}

RECURSIVE LStrip(_)
LStrip(s) ==
    IF s # <<>> /\ IsSpace(Head(s)) THEN LStrip(Tail(s)) ELSE s

RECURSIVE RStrip(_)
RStrip(s) ==
    IF s # <<>> /\ IsSpace(s[Len(s)]) THEN RStrip(SubSeq(s, 1, Len(s) - 1)) ELSE s

\* str.strip()
Strip(s) == RStrip(LStrip(s))

StartsWith(s, p) == Len(s) >= Len(p) /\ SubSeq(s, 1, Len(p)) = p

\* str.endswith(p)
EndsWith(s, p) ==
    Len(s) >= Len(p) /\ SubSeq(s, Len(s) - Len(p) + 1, Len(s)) = p

\* str.replace(old, ''): every non-overlapping occurrence, left to right
RECURSIVE ReplaceAll(_, _)
ReplaceAll(s, old) ==
    IF Len(s) < Len(old) THEN s
    ELSE IF StartsWith(s, old)
         THEN ReplaceAll(SubSeq(s, Len(old) + 1, Len(s)), old)
         ELSE <<Head(s)>> \o ReplaceAll(Tail(s), old)

\* needle in hay
RECURSIVE In(_, _)
In(needle, hay) ==
    IF Len(hay) < Len(needle) THEN FALSE
    ELSE StartsWith(hay, needle) \/ In(needle, Tail(hay))

\* str.rfind('.') + 1: position of the last dot, 0 when there is none
RFindDot(s) ==
    IF \E i \in 1..Len(s) : s[i] = "."
    THEN CHOOSE i \in 1..Len(s) : s[i] = "." /\ \A j \in (i+1)..Len(s) : s[j] # "."
    ELSE 0

\* Path(filename).name for a name without path separators: Path(".") is the
\* current directory, whose name is empty.
PathName(filename) == IF filename = <<".">> THEN <<>> ELSE filename

\* Path(filename).stem: the name up to its last dot, unless that dot is the
\* first or the last character (pathlib up to Python 3.13).
PathStem(filename) ==
    LET name == PathName(filename)
        d == RFindDot(name)
    IN IF 1 < d /\ d < Len(name) THEN SubSeq(name, 1, d - 1) ELSE name

--------------------------------------------------------------------------
(* get_base_name *)

Suffixes ==
    << <<"_","i","n","v","o","i","c","e">>,
       <<"_","c","l","a","i","m">>,
       <<"_","s","t","a","t","e","m","e","n","t">>,
       <<" ","i","n","v","o","i","c","e">>,
       <<" ","c","l","a","i","m">>,
       <<" ","s","t","a","t","e","m","e","n","t">> >>

\* for suffix in [...]: name = name.replace(suffix, '')
RECURSIVE RemoveSuffixes(_, _)
RemoveSuffixes(name, i) ==
    IF i > Len(Suffixes) THEN name
    ELSE RemoveSuffixes(ReplaceAll(name, Suffixes[i]), i + 1)

get_base_name(filename) ==
    Lower(Strip(RemoveSuffixes(PathStem(filename), 1)))

--------------------------------------------------------------------------
(* Inputs of the get_base_name runs: a stem built from a few pieces, one    *)
(* suffix token written in some letter case (or none), and an extension.    *)

Pieces ==
    { <<"a">>, <<"A">>, <<".">>, <<" ">>, <<"v","2">>,
      <<"_","i","n","v">>, <<"o","i","c","e">>,
      <<"_","c","l","a","i","m">>,
      <<"p","o","l","i","c","y"," ","4","5","6">>,
      <<"P","o","l","i","c","y"," ","4","5","6">> }

RECURSIVE StemsOf(_)
StemsOf(n) ==
    IF n = 0 THEN { <<>> }
    ELSE LET shorter == StemsOf(n - 1)
         IN shorter \cup { s \o p : s \in shorter, p \in Pieces }

\* uploaded documents are not dot-files: a stem does not begin with a dot
Stems == { s \in StemsOf(MaxPieces) : s # <<>> /\ s[1] # "." }

TokenVariants ==
    { <<"_","i","n","v","o","i","c","e">>, <<"_","I","N","V","O","I","C","E">>,
      <<" ","i","n","v","o","i","c","e">>, <<" ","I","n","v","o","i","c","e">>,
      <<"_","c","l","a","i","m">>,         <<"_","C","l","a","i","m">>,
      <<" ","s","t","a","t","e","m","e","n","t">>,
      <<" ","S","T","A","T","E","M","E","N","T">> }

PdfExt == <<".","p","d","f">>
CsvExt == <<".","c","s","v">>
XlsxExt == <<".","x","l","s","x">>
XlsExt == <<".","x","l","s">>

Exts == { PdfExt, CsvExt, XlsxExt }

OtherExt(e) == IF e = PdfExt THEN CsvExt ELSE PdfExt

Absent == "absent"

PipelineIdle ==
    /\ pc = "norm"
    /\ secrets = Absent /\ text_input = "" /\ api_key = ""
    /\ pdf_files = <<>> /\ excel_files = <<>>
    /\ pdf_dict = <<>> /\ excel_dict = <<>>
    /\ matched_pairs = <<>> /\ unmatched_pdfs = <<>> /\ unmatched_excels = <<>>
    /\ shown = <<>> /\ results = <<>> /\ idx = 0 /\ total_pairs = 0
    /\ calls = <<>> /\ outcomes = <<>>
    /\ discrepancy_count = 0 /\ match_count = 0 /\ results_text = <<>>

NormInit ==
    /\ PipelineIdle
    /\ stem \in Stems
    /\ token \in TokenVariants \cup { <<>> }
    /\ ext \in Exts
    /\ key = <<>> /\ bare_key = <<>> /\ key2 = <<>>

\* get_base_name on the file carrying the token and on its counterpart
\* without the token (the two names the matcher has to pair).
Normalize ==
    /\ pc = "norm"
    /\ pc' = "normalized"
    /\ key' = get_base_name(stem \o token \o ext)
    /\ bare_key' = get_base_name(stem \o OtherExt(ext))
    /\ UNCHANGED <<secrets, text_input, api_key, pdf_files, excel_files, pdf_dict,
                   excel_dict, matched_pairs, unmatched_pdfs, unmatched_excels,
                   shown, results, idx, total_pairs, calls, outcomes,
                   discrepancy_count, match_count, results_text>>
    /\ UNCHANGED <<stem, token, ext, key2>>

\* get_base_name applied to an already-normalised key
Renormalize ==
    /\ pc = "normalized"
    /\ pc' = "renormalized"
    /\ key2' = get_base_name(key)
    /\ UNCHANGED <<secrets, text_input, api_key, pdf_files, excel_files, pdf_dict,
                   excel_dict, matched_pairs, unmatched_pdfs, unmatched_excels,
                   shown, results, idx, total_pairs, calls, outcomes,
                   discrepancy_count, match_count, results_text>>
    /\ UNCHANGED <<stem, token, ext, key, bare_key>>

NormNext == Normalize \/ Renormalize

SpecNorm == NormInit /\ [][NormNext]_vars

--------------------------------------------------------------------------
(* The script run: credential, upload, matching, pair loop, aggregation *)

\* Names the two uploaders can deliver (the uploaders admit .pdf and
\* .xlsx/.xls/.csv only; the browser supplies base names).
PdfNames ==
    { <<"a",".","p","d","f">>,
      <<"a","_","c","l","a","i","m",".","p","d","f">>,
      <<"B"," ","I","n","v","o","i","c","e",".","p","d","f">>,
      <<"c",".","p","d","f">> }

ExcelNames ==
    { <<"a",".","c","s","v">>,
      <<"A",".","x","l","s","x">>,
      <<"b",".","c","s","v">>,
      <<"c",".","x","l","s">> }

\* Sequences of at most n different elements of S: one upload
RECURSIVE Uploads(_, _)
Uploads(S, n) ==
    IF n = 0 THEN { <<>> }
    ELSE LET shorter == Uploads(S, n - 1)
         IN shorter \cup
            UNION { { Append(s, f) : f \in { g \in S : \A i \in 1..Len(s) : s[i] # g } }
                    : s \in shorter }

KeyValues == { "", "sk-ant" }

\* variant: the empty-key check left out
KeyMissingNever(k) == FALSE

\* `not api_key`
KeyMissing(k) == k = ""

\* Insertion-ordered dict as a sequence of <<key, value>>
DictHas(d, k) == \E i \in 1..Len(d) : d[i][1] = k

DictGet(d, k) == d[CHOOSE i \in 1..Len(d) : d[i][1] = k][2]

\* d[k] = v: an existing key keeps its position and takes the new value
DictPut(d, k, v) ==
    IF DictHas(d, k)
    THEN [i \in 1..Len(d) |-> IF d[i][1] = k THEN <<k, v>> ELSE d[i]]
    ELSE Append(d, <<k, v>>)

\* {get_base_name(f.name): f for f in files}
RECURSIVE DictOf(_, _)
DictOf(files, d) ==
    IF files = <<>> THEN d
    ELSE DictOf(Tail(files), DictPut(d, get_base_name(Head(files)), Head(files)))

\* first loop, if-branch: matched_pairs.append((pdf, excel_dict[name]))
MatchedPairs(pd, ed) ==
    LET hit == SelectSeq(pd, LAMBDA it : DictHas(ed, it[1]))
    IN [i \in 1..Len(hit) |-> <<hit[i][2], DictGet(ed, hit[i][1])>>]

\* first loop, else-branch: unmatched_pdfs.append(pdf.name)
UnmatchedPdfs(pd, ed) ==
    LET miss == SelectSeq(pd, LAMBDA it : ~DictHas(ed, it[1]))
    IN [i \in 1..Len(miss) |-> miss[i][2]]

\* variant: the second loop tests membership in excel_dict
UnmatchedExcelsWrongDict(pd, ed) ==
    LET miss == SelectSeq(ed, LAMBDA it : ~DictHas(ed, it[1]))
    IN [i \in 1..Len(miss) |-> miss[i][2]]

\* second loop: if name not in pdf_dict: unmatched_excels.append(excel.name)
UnmatchedExcels(pd, ed) ==
    LET miss == SelectSeq(ed, LAMBDA it : ~DictHas(pd, it[1]))
    IN [i \in 1..Len(miss) |-> miss[i][2]]

\* len(matched_pairs) == 0
NoPairs(mp) == Len(mp) = 0

--------------------------------------------------------------------------
(* What the environment can do to one pair inside the try block *)

CauseRead == <<"c","l","o","s","e","d"," ","f","i","l","e">>
CauseEncode == <<"b","a","d"," ","b","y","t","e","s">>
CauseExtract == <<"n","o","t"," ","a"," ","z","i","p"," ","f","i","l","e">>
CauseInvoke == <<"r","a","t","e"," ","l","i","m","i","t">>
CauseInvokeEcho ==
    <<"D","I","S","C","R","E","P","A","N","C","Y"," ","i","n"," ",
      "r","e","q","u","e","s","t">>
CauseUnwrap ==
    <<"l","i","s","t"," ","i","n","d","e","x"," ","o","u","t"," ","o","f"," ",
      "r","a","n","g","e">>

ResponseMatch == <<"S","t","a","t","u","s",":"," ","M","A","T","C","H">>
ResponseDiscrepancy ==
    <<"S","t","a","t","u","s",":"," ","D","I","S","C","R","E","P","A","N","C","Y",
      " ","F","O","U","N","D">>
ResponseProse == <<"N","O"," ","D","I","S","C","R","E","P","A","N","C","Y">>

Responses == { ResponseMatch, ResponseDiscrepancy, ResponseProse }

\* Stages in the order the try block runs them; pd.read_excel is reached
\* only for a name that does not end in .csv (the .csv branch decodes with
\* errors='ignore').
Outcomes(excel) ==
    { [stage |-> "read", text |-> CauseRead],
      [stage |-> "encode", text |-> CauseEncode],
      [stage |-> "invoke", text |-> CauseInvoke],
      [stage |-> "invoke", text |-> CauseInvokeEcho],
      [stage |-> "unwrap", text |-> CauseUnwrap] }
    \cup (IF EndsWith(excel, CsvExt) THEN {}
          ELSE { [stage |-> "extract", text |-> CauseExtract] })
    \cup { [stage |-> "ok", text |-> r] : r \in Responses }

\* stages at which client.messages.create has been entered
Invoked(o) == o.stage \in { "invoke", "unwrap", "ok" }

\* the character U+274C, then " Error processing: "
ErrorPrefix ==
    <<"U+274C"," ","E","r","r","o","r"," ","p","r","o","c","e","s","s","i","n","g",
      ":"," ">>

\* results.append({... "result": response_text})
TryResult(rs, pdf, excel, response_text) ==
    Append(rs, [pdf |-> pdf, excel |-> excel, result |-> response_text])

\* variant: the except branch appends nothing
ExceptResultDropped(rs, pdf, excel, cause) == rs

\* variant: the except branch stores str(e) without the error prefix
ExceptResultBare(rs, pdf, excel, cause) ==
    Append(rs, [pdf |-> pdf, excel |-> excel, result |-> cause])

\* except Exception as e: results.append({... f"<U+274C> Error processing: {str(e)}"})
ExceptResult(rs, pdf, excel, cause) ==
    Append(rs, [pdf |-> pdf, excel |-> excel, result |-> ErrorPrefix \o cause])

--------------------------------------------------------------------------
(* Aggregation *)

Marker == <<"D","I","S","C","R","E","P","A","N","C","Y">>

\* variant: r["result"].startswith("DISCREPANCY") in place of `in`
RECURSIVE CountDiscrepanciesPrefixOnly(_)
CountDiscrepanciesPrefixOnly(rs) ==
    IF rs = <<>> THEN 0
    ELSE (IF StartsWith(Head(rs).result, Marker) THEN 1 ELSE 0)
         + CountDiscrepanciesPrefixOnly(Tail(rs))

\* sum(1 for r in results if "DISCREPANCY" in r["result"])
RECURSIVE CountDiscrepancies(_)
CountDiscrepancies(rs) ==
    IF rs = <<>> THEN 0
    ELSE (IF In(Marker, Head(rs).result) THEN 1 ELSE 0)
         + CountDiscrepancies(Tail(rs))

\* variant: the subtraction left out
MatchCountAll(total, d) == total

\* total_pairs - discrepancy_count
MatchCount(total, d) == total - d

DigitChars == <<"0","1","2","3","4","5","6","7","8","9">>

\* str(n) for n >= 0
RECURSIVE Str(_)
Str(n) ==
    IF n < 10 THEN <<DigitChars[n + 1]>>
    ELSE Str(n \div 10) \o <<DigitChars[(n % 10) + 1]>>

NL2 == <<"\n","\n">>

\* "=" * 80
SepLine == [i \in 1..SepWidth |-> "="]

\* f"CLAIM #{idx}\nPDF: {r['pdf']}\nExcel: {r['excel']}\n\n{r['result']}"
Block(n, r) ==
    <<"C","L","A","I","M"," ","#">> \o Str(n)
    \o <<"\n","P","D","F",":"," ">> \o r.pdf
    \o <<"\n","E","x","c","e","l",":"," ">> \o r.excel
    \o NL2 \o r.result

Blocks(rs) == [i \in 1..Len(rs) |-> Block(i, rs[i])]

\* sep.join(parts)
RECURSIVE Join(_, _)
Join(parts, sep) ==
    IF parts = <<>> THEN <<>>
    ELSE IF Len(parts) = 1 THEN parts[1]
    ELSE parts[1] \o sep \o Join(Tail(parts), sep)

\* "\n\n" + "="*80 + "\n\n".join([...]): the method call binds tighter than
\* +, so the join uses "\n\n" alone and the "=" line is prepended once.
Render(rs) == NL2 \o SepLine \o Join(Blocks(rs), NL2)

--------------------------------------------------------------------------
(* Actions *)

Init ==
    /\ pc = "start"
    /\ secrets \in { Absent } \cup KeyValues
    /\ text_input = "" /\ api_key = ""
    /\ pdf_files = <<>> /\ excel_files = <<>>
    /\ pdf_dict = <<>> /\ excel_dict = <<>>
    /\ matched_pairs = <<>> /\ unmatched_pdfs = <<>> /\ unmatched_excels = <<>>
    /\ shown = <<>> /\ results = <<>> /\ idx = 0 /\ total_pairs = 0
    /\ calls = <<>> /\ outcomes = <<>>
    /\ discrepancy_count = 0 /\ match_count = 0 /\ results_text = <<>>
    /\ stem = <<>> /\ token = <<>> /\ ext = <<>>
    /\ key = <<>> /\ bare_key = <<>> /\ key2 = <<>>

\* try: api_key = st.secrets[...]  except: api_key = st.text_input(...);
\* if not api_key: st.stop()
LoadApiKey ==
    /\ pc = "start"
    /\ IF secrets # Absent
       THEN /\ api_key' = secrets
            /\ text_input' = text_input
            /\ shown' = Append(shown, "key_loaded")
            /\ pc' = "upload"
       ELSE \E typed \in KeyValues :
            /\ text_input' = typed
            /\ api_key' = typed
            /\ IF KeyMissing(typed)
               THEN shown' = Append(shown, "key_warning") /\ pc' = "stopped"
               ELSE shown' = shown /\ pc' = "upload"
    /\ UNCHANGED <<secrets, pdf_files, excel_files, pdf_dict, excel_dict,
                   matched_pairs, unmatched_pdfs, unmatched_excels, results, idx,
                   total_pairs, calls, outcomes, discrepancy_count, match_count,
                   results_text>>
    /\ UNCHANGED nvars

\* the two st.file_uploader widgets
Upload ==
    /\ pc = "upload"
    /\ pdf_files' \in Uploads(PdfNames, MaxFiles)
    /\ excel_files' \in Uploads(ExcelNames, MaxFiles)
    /\ pc' = "ready"
    /\ UNCHANGED <<secrets, text_input, api_key, pdf_dict, excel_dict,
                   matched_pairs, unmatched_pdfs, unmatched_excels, shown, results,
                   idx, total_pairs, calls, outcomes, discrepancy_count,
                   match_count, results_text>>
    /\ UNCHANGED nvars

\* The button (enabled only with files on both sides): matching, the
\* unmatched warning with its checkbox, and the zero-pairs check.
Match ==
    /\ pc = "ready"
    /\ pdf_files # <<>> /\ excel_files # <<>>
    /\ \E checkbox \in BOOLEAN :
         LET pd == DictOf(pdf_files, <<>>)
             ed == DictOf(excel_files, <<>>)
             mp == MatchedPairs(pd, ed)
             up == UnmatchedPdfs(pd, ed)
             ue == UnmatchedExcels(pd, ed)
             warn == up # <<>> \/ ue # <<>>
             info == Append(shown, "pairs_info")
             warned == IF warn THEN Append(info, "unmatched_warning") ELSE info
         IN /\ pdf_dict' = pd /\ excel_dict' = ed
            /\ matched_pairs' = mp
            /\ unmatched_pdfs' = up /\ unmatched_excels' = ue
            /\ IF warn /\ ~checkbox
               THEN /\ shown' = warned
                    /\ pc' = "stopped"
                    /\ total_pairs' = total_pairs
               ELSE IF NoPairs(mp)
               THEN /\ shown' = Append(warned, "no_pairs_error")
                    /\ pc' = "stopped"
                    /\ total_pairs' = total_pairs
               ELSE /\ shown' = warned
                    /\ pc' = "loop"
                    /\ total_pairs' = Len(mp)
    /\ UNCHANGED <<secrets, text_input, api_key, pdf_files, excel_files, results,
                   idx, calls, outcomes, discrepancy_count, match_count,
                   results_text>>
    /\ UNCHANGED nvars

\* One iteration of `for idx, (pdf_file, excel_file) in enumerate(matched_pairs)`
ProcessPair ==
    /\ pc = "loop"
    /\ idx < Len(matched_pairs)
    /\ LET pdf_file == matched_pairs[idx + 1][1]
           excel_file == matched_pairs[idx + 1][2]
       IN \E o \in Outcomes(excel_file) :
            /\ outcomes' = Append(outcomes, o)
            /\ calls' = IF Invoked(o) THEN Append(calls, idx + 1) ELSE calls
            /\ results' = IF o.stage = "ok"
                          THEN TryResult(results, pdf_file, excel_file, o.text)
                          ELSE ExceptResult(results, pdf_file, excel_file, o.text)
    /\ idx' = idx + 1
    /\ UNCHANGED <<pc, secrets, text_input, api_key, pdf_files, excel_files,
                   pdf_dict, excel_dict, matched_pairs, unmatched_pdfs,
                   unmatched_excels, shown, total_pairs, discrepancy_count,
                   match_count, results_text>>
    /\ UNCHANGED nvars

\* After the loop: the counts and the downloadable report
Summarize ==
    /\ pc = "loop"
    /\ idx = Len(matched_pairs)
    /\ discrepancy_count' = CountDiscrepancies(results)
    /\ match_count' = MatchCount(total_pairs, CountDiscrepancies(results))
    /\ results_text' = Render(results)
    /\ shown' = Append(shown, "processed")
    /\ pc' = "done"
    /\ UNCHANGED <<secrets, text_input, api_key, pdf_files, excel_files, pdf_dict,
                   excel_dict, matched_pairs, unmatched_pdfs, unmatched_excels,
                   results, idx, total_pairs, calls, outcomes>>
    /\ UNCHANGED nvars

Next == LoadApiKey \/ Upload \/ Match \/ ProcessPair \/ Summarize

Spec == Init /\ [][Next]_vars

--------------------------------------------------------------------------
(* Properties of the script run *)

Shown(m) == \E i \in 1..Len(shown) : shown[i] = m

\* the matcher has run (st.info "Found n matching pairs" was shown)
MatchingDone == Shown("pairs_info")

\* the for loop has run off the end of matched_pairs
LoopFinished ==
    pc = "done" \/ (pc = "loop" /\ idx = Len(matched_pairs))

Failed(i) == outcomes[i].stage # "ok"

IsErrorResult(r) == StartsWith(r.result, ErrorPrefix)

\* "DISCREPANCY" occurs somewhere in text
HasMarker(text) ==
    \E i \in 1..(Len(text) - Len(Marker) + 1) :
        SubSeq(text, i, i + Len(Marker) - 1) = Marker

Occurrences(seq, x) == Cardinality({ i \in 1..Len(seq) : seq[i] = x })

\* C1: when the loop finishes there is exactly one result per matched pair,
\* in matcher order, carrying the pair's report name and tabular name.
C1_OneResultPerPair ==
    LoopFinished =>
        /\ Len(matched_pairs) >= 1
        /\ Len(results) = Len(matched_pairs)
        /\ \A i \in 1..Len(matched_pairs) :
              /\ results[i].pdf = matched_pairs[i][1]
              /\ results[i].excel = matched_pairs[i][2]

C1_Witness ==
    /\ pc = "done"
    /\ Len(matched_pairs) >= 2
    /\ Len(results) = Len(matched_pairs)
    /\ Failed(1) /\ ~Failed(2)
    /\ results[1].pdf # results[2].pdf

\* C2: if exactly pair k fails (at any stage) then result k is the error
\* message embedding the cause, every other result is the comparator's text
\* and no error result, and the comparator is still invoked for every pair
\* after k.
C2_FailureIsolation ==
    LoopFinished =>
        \A k \in 1..Len(outcomes) :
            (Failed(k) /\ \A j \in 1..Len(outcomes) : j # k => ~Failed(j)) =>
                /\ Len(results) = Len(matched_pairs)
                /\ Len(outcomes) = Len(matched_pairs)
                /\ IsErrorResult(results[k])
                /\ results[k].result = ErrorPrefix \o outcomes[k].text
                /\ \A j \in 1..Len(results) : j # k =>
                      /\ results[j].result = outcomes[j].text
                      /\ ~IsErrorResult(results[j])
                /\ \A j \in (k + 1)..Len(matched_pairs) :
                      Occurrences(calls, j) = 1

C2_Witness ==
    /\ pc = "done"
    /\ Len(outcomes) >= 2
    /\ Failed(1) /\ outcomes[1].stage = "read"
    /\ ~Failed(2)
    /\ Occurrences(calls, 1) = 0 /\ Occurrences(calls, 2) = 1

PdfPlaces(f) ==
    Cardinality({ i \in 1..Len(matched_pairs) : matched_pairs[i][1] = f })
    + Occurrences(unmatched_pdfs, f)

ExcelPlaces(f) ==
    Cardinality({ i \in 1..Len(matched_pairs) : matched_pairs[i][2] = f })
    + Occurrences(unmatched_excels, f)

Partitioned ==
    /\ \A i \in 1..Len(pdf_files) : PdfPlaces(pdf_files[i]) = 1
    /\ \A i \in 1..Len(excel_files) : ExcelPlaces(excel_files[i]) = 1

NoSharedKey ==
    \A i \in 1..Len(pdf_files), j \in 1..Len(excel_files) :
        get_base_name(pdf_files[i]) # get_base_name(excel_files[j])

AllUnmatched ==
    /\ matched_pairs = <<>>
    /\ \A i \in 1..Len(pdf_files) : Occurrences(unmatched_pdfs, pdf_files[i]) = 1
    /\ \A i \in 1..Len(excel_files) : Occurrences(unmatched_excels, excel_files[i]) = 1
    /\ Len(unmatched_pdfs) = Len(pdf_files)
    /\ Len(unmatched_excels) = Len(excel_files)

\* two files of one collection normalise to the same key
Collides(files) ==
    \E i, j \in 1..Len(files) :
        i # j /\ get_base_name(files[i]) = get_base_name(files[j])

\* the state the matcher leaves, before the pair loop has taken a step
\* (nothing after the matcher writes the pairs or the unmatched lists)
JustMatched == idx = 0 /\ MatchingDone

\* C3 as stated: for all collections, same-key files of one collection
\* included, every uploaded file is in exactly one of the matched pairs and
\* the unmatched lists; with no shared key everything is unmatched once.
C3_PartitionAlways ==
    JustMatched => (Partitioned /\ (NoSharedKey => AllUnmatched))

\* C3 amended: the same, for collections in which no two files of the same
\* collection normalise to the same key.
C3_PartitionWithoutCollisions ==
    (JustMatched /\ ~Collides(pdf_files) /\ ~Collides(excel_files)) =>
        (Partitioned /\ (NoSharedKey => AllUnmatched))

C3_Witness ==
    /\ JustMatched
    /\ ~Collides(pdf_files) /\ ~Collides(excel_files)
    /\ Len(matched_pairs) >= 1
    /\ unmatched_pdfs # <<>> /\ unmatched_excels # <<>>
    /\ Partitioned

\* neither the secret store nor the operator supplied a key
NoCredential == pc # "start" /\ secrets = Absent /\ text_input = ""

ZeroPairs == MatchingDone /\ Len(matched_pairs) = 0

C5_NoMatchErrorSurfaced ==
    ZeroPairs => Shown("no_pairs_error")

WithoutNewlines(s) == SelectSeq(s, LAMBDA c : c # "\n")

\* non-overlapping occurrences of needle in hay, left to right
RECURSIVE CountOf(_, _)
CountOf(needle, hay) ==
    IF Len(hay) < Len(needle) THEN 0
    ELSE IF StartsWith(hay, needle)
         THEN 1 + CountOf(needle, SubSeq(hay, Len(needle) + 1, Len(hay)))
         ELSE CountOf(needle, Tail(hay))

\* C8: the report is the N blocks in result order with the 80-character
\* "=" line between every two consecutive blocks: the separator joins,
\* N-1 times (line breaks around it left open).
C8_SeparatorJoinsBlocks ==
    pc = "done" =>
        /\ CountOf(SepLine, results_text) = Len(results) - 1
        /\ WithoutNewlines(results_text)
             = Join([i \in 1..Len(results) |->
                        WithoutNewlines(Block(i, results[i]))], SepLine)

\* C9: discrepancy_count is the number of results whose text contains
\* DISCREPANCY, match_count is total_pairs minus it, the two add up to the
\* number of results and neither is negative.
C9_Counts ==
    pc = "done" =>
        /\ discrepancy_count
             = Cardinality({ i \in 1..Len(results) : HasMarker(results[i].result) })
        /\ match_count = total_pairs - discrepancy_count
        /\ match_count + discrepancy_count = Len(results)
        /\ match_count >= 0 /\ discrepancy_count >= 0

C9_Witness ==
    /\ pc = "done"
    /\ discrepancy_count >= 1 /\ match_count >= 1
    /\ \E i \in 1..Len(results) : results[i].result = ResponseProse

\* pairs for which the comparator returned a verdict
Verdicts == { i \in 1..Len(outcomes) : ~Failed(i) }

\* C10: every error result whose cause does not contain DISCREPANCY counts
\* as a match and not as a discrepancy, so match_count is the number of
\* marker-free verdicts plus the number of such failures.
C10_FailuresCountAsMatches ==
    pc = "done" =>
        LET quiet == { i \in 1..Len(outcomes) :
                          Failed(i) /\ ~HasMarker(outcomes[i].text) }
            clean == { i \in Verdicts : ~HasMarker(outcomes[i].text) }
        IN /\ Len(results) = Len(outcomes)
           /\ \A i \in quiet : IsErrorResult(results[i]) /\ ~HasMarker(results[i].result)
           /\ match_count = Cardinality(clean) + Cardinality(quiet)
           /\ discrepancy_count = Len(outcomes) - Cardinality(clean) - Cardinality(quiet)

\* match_count exceeds the number of pairs the comparator gave a verdict for
C10_Witness ==
    /\ pc = "done"
    /\ Len(results) = Len(outcomes)
    /\ \E i \in 1..Len(outcomes) : Failed(i) /\ ~HasMarker(outcomes[i].text)
    /\ match_count > Cardinality(Verdicts)

--------------------------------------------------------------------------
(* Properties of get_base_name *)

IsLowerCase(s) == Lower(s) = s

\* C6: suffix-token removal is case-insensitive: a name carrying a suffix
\* token in any letter case normalises to the same key as the name without
\* the token (so the matcher pairs the two files).
C6_CaseInsensitiveSuffix ==
    (pc # "norm" /\ token # <<>>) => key = bare_key

\* The same statement restricted to tokens written in lower case, as the
\* source lists them: the divergence of C6 is the letter case alone.
C6_LowerCaseTokensPaired ==
    (pc # "norm" /\ token # <<>> /\ IsLowerCase(token)) => key = bare_key

\* C7: get_base_name is idempotent: normalising an already-normalised key
\* changes nothing.
C7_Idempotent ==
    pc = "renormalized" => key2 = key

====
